---- MODULE Spec2Model ----
(***************************************************************************)
(* Session / token lifecycle of ReownAppKitService.                        *)
(*                                                                         *)
(* State: the two BehaviorSubjects (current user, current session), the    *)
(* localStorage entry 'reown_token', the wall clock read by `new Date()`,  *)
(* the observables the service has returned, the HTTP requests in flight   *)
(* and the operations suspended inside currentUserSubject.next().          *)
(*                                                                         *)
(* Nullable values are sequences: <<>> is null, <<v>> is the value v.      *)
(***************************************************************************)
EXTENDS Integers, Sequences, FiniteSets, Bags, TLC

\* ------------------------------------------------------------------ bounds
MaxTime == 1        \* the clock takes the values 0..MaxTime
MaxPending == 1     \* HTTP requests in flight
MaxOverlap == 2     \* the same, where operations overlap (OverlapSpec)
MaxHeld == 1        \* observables returned that a caller still holds
MaxDepth == 1       \* operations suspended while subscribers' callbacks run

\* ------------------------------------------------------------ value domains
Null == <<>>
Some(v) == <<v>>

Times == 0..MaxTime

\* ReownUser (models/index.ts): only the id is observable here.
ReownUser == {[id |-> "u1"], [id |-> "u2"]}

\* ReownSession: id (a non-empty string) and userId.
ReownSession == {[id |-> "s1", userId |-> "u1"], [id |-> "s2", userId |-> "u2"]}

\* JavaScript values that occur as property values of a token.
\*   <<"str", s>>   a string that is no date
\*   <<"date", n>>  the ISO string of instant n (what JSON carries for a Date)
\*   <<"null">>     null
\*   <<"undefined">> undefined (property absent)
Undefined == <<"undefined">>
JsNull == <<"null">>
Str(s) == <<"str", s>>
IsoDate(n) == <<"date", n>>

\* Expiry instants of the tokens considered: the first instant of the clock
\* (expired as soon as time passes) and the last one (never expired).
Expiries == {0, MaxTime}

\* ReownToken as the server sends it: token string and expiresAt.
ReownToken ==
    {[token |-> Str(s), expiresAt |-> IsoDate(n)] : s \in {"t1", "t2"}, n \in Expiries}

\* ----------------------------------------------------- JSON text (storage)
\* A text is its literal form plus, for an object literal, the members in
\* the order written.  lit: "" (empty string), "undefined" (no JSON),
\* "null", "0" (a falsy primitive), "123" (a truthy primitive), "{}" (object).
Text(lit, members) == [lit |-> lit, members |-> members]

\* JS values produced by JSON.parse: kind, and for objects the two properties
\* the service reads (a property not present reads as undefined).
JsValue(kind, tok, exp) == [kind |-> kind, token |-> tok, expiresAt |-> exp]

RECURSIVE Member(_, _)
\* value of the last member named key, or undefined
Member(members, key) ==
    IF members = <<>> THEN Undefined
    ELSE LET n == Len(members) IN
         IF members[n][1] = key THEN members[n][2]
         ELSE Member(SubSeq(members, 1, n - 1), key)

\* JSON.stringify of a token object: undefined properties are omitted.
JSONstringify(token) ==
    Text("{}",
         (IF token.token = Undefined THEN <<>> ELSE << <<"token", token.token>> >>)
         \o (IF token.expiresAt = Undefined THEN <<>>
             ELSE << <<"expiresAt", token.expiresAt>> >>))

\* JSON.parse: throws SyntaxError on text that is no JSON.
JSONparse(text) ==
    CASE text.lit = "{}" ->
            [threw |-> FALSE,
             value |-> JsValue("object", Member(text.members, "token"),
                               Member(text.members, "expiresAt"))]
      [] text.lit = "null" ->
            [threw |-> FALSE, value |-> JsValue("null", Undefined, Undefined)]
      [] text.lit = "0" ->
            [threw |-> FALSE, value |-> JsValue("falsy", Undefined, Undefined)]
      [] text.lit = "123" ->
            [threw |-> FALSE, value |-> JsValue("truthy", Undefined, Undefined)]
      [] OTHER ->
            [threw |-> TRUE, value |-> JsValue("undefined", Undefined, Undefined)]

\* JS truthiness of a value returned by getStoredToken
Truthy(v) == v.kind \in {"object", "truthy"}

\* new Date(x): the instant, or NaN (Invalid Date).
\* new Date(null) is the epoch; new Date(undefined) and unparsable strings are NaN.
NaN == <<"NaN">>
NewDate(x) ==
    CASE x[1] = "date" -> <<"time", x[2]>>
      [] x[1] = "null" -> <<"time", 0>>
      [] OTHER -> NaN

\* a < b on Dates: false when either side is NaN
DateLt(a, b) == a # NaN /\ b # NaN /\ a[2] < b[2]


\* ------------------------------------------------------------------- state
VARIABLES
    currentUser,      \* currentUserSubject.value: Null or Some(user)
    currentSession,   \* currentSessionSubject.value: Null or Some(session)
    storage,          \* localStorage['reown_token']: Null (absent) or Some(text)
    now,              \* the instant `new Date()` returns
    held,             \* the observables returned that a caller still holds
    pending,          \* bag of the HTTP requests sent and not yet answered
    stack,            \* the operations suspended inside a subject's next()
    last              \* what the most recent step did (observation only)

vars == <<currentUser, currentSession, storage, now, held, pending, stack, last>>

\* The mutable fields of the service, as one value S that methods transform.
Svc(u, s, st) == [user |-> u, session |-> s, storage |-> st]
Cur == Svc(currentUser, currentSession, storage)

\* How a method runs over the fields:
\*   emits  whether it calls currentUserSubject.next() (the subscribers'
\*          callbacks run inside that call)
\*   mid    the fields at that call (the fields at the end when it makes none)
\*   tail   whether it then calls currentSessionSubject.next(), whose
\*          subscribers run inside that call in their turn
\*   S      the fields when the method returns, if no callback touched them
Run(emits, mid, S) == [emits |-> emits, mid |-> mid, tail |-> emits, S |-> S]
\* no subject is written
Stay(S) == Run(FALSE, S, S)
\* currentUserSubject.next() is the only write of a subject
Tell(S) == [emits |-> TRUE, mid |-> S, tail |-> FALSE, S |-> S]

\* ---------------------------------------------------------- private methods
\* clearSession(): removeItem; currentUserSubject.next(null), whose
\* subscribers run before the last statement; currentSessionSubject.next(null),
\* whose subscribers run before clearSession returns
clearSession(S) ==
    Run(TRUE, [S EXCEPT !.storage = Null, !.user = Null], Svc(Null, Null, Null))

\* setToken(token): setItem(key, JSON.stringify(token))
setToken(S, token) == [S EXCEPT !.storage = Some(JSONstringify(token))]

NullValue == JsValue("null", Undefined, Undefined)

\* What getStoredToken hands back: the value returned, the run over the
\* fields, the branch taken and whether an exception left the method.
\*   "absent"  getItem gave null or "" (!tokenStr): return null, nothing cleared
\*   "threw"   JSON.parse threw, or the parsed value is null so that reading
\*             token.expiresAt threw: caught, clearSession, return null
\*   "expired" new Date(token.expiresAt) < new Date(): clearSession, return null
\*   "ok"      the parsed value is returned
Read(ret, run, path) ==
    [ret |-> ret, emits |-> run.emits, mid |-> run.mid, tail |-> run.tail,
     S |-> run.S, path |-> path, raised |-> FALSE]

\* <= in place of <: a token also expires at the very instant it names
ExpiredOrDue(token, t) ==
    \/ DateLt(NewDate(token.expiresAt), <<"time", t>>)
    \/ NewDate(token.expiresAt) = <<"time", t>>

\* new Date(token.expiresAt) < new Date()
Expired(token, t) == DateLt(NewDate(token.expiresAt), <<"time", t>>)

\* a read that reports an expired or unreadable token without clearing
getStoredTokenNoClear(S, t) ==
    IF S.storage = Null
    THEN Read(NullValue, Stay(S), "absent")
    ELSE IF S.storage[1].lit = ""
    THEN Read(NullValue, Stay(S), "absent")
    ELSE LET p == JSONparse(S.storage[1]) IN
         IF p.threw \/ p.value.kind = "null"
         THEN Read(NullValue, Stay(S), "threw")
         ELSE IF Expired(p.value, t)
         THEN Read(NullValue, Stay(S), "expired")
         ELSE Read(p.value, Stay(S), "ok")

\* a read that removes a stale token from storage but leaves user and session
getStoredTokenRemoveOnly(S, t) ==
    LET r == getStoredTokenNoClear(S, t) IN
    IF r.path \in {"threw", "expired"}
    THEN Read(r.ret, Stay([S EXCEPT !.storage = Null]), r.path)
    ELSE r

getStoredToken(S, t) ==
    IF S.storage = Null
    THEN Read(NullValue, Stay(S), "absent")
    ELSE IF S.storage[1].lit = ""
    THEN Read(NullValue, Stay(S), "absent")
    ELSE LET p == JSONparse(S.storage[1]) IN
         IF p.threw \/ p.value.kind = "null"
         THEN Read(NullValue, clearSession(S), "threw")
         ELSE IF Expired(p.value, t)
         THEN Read(NullValue, clearSession(S), "expired")
         ELSE Read(p.value, Stay(S), "ok")

\* What a step records about its call of getStoredToken: the service's
\* fields before the call (pre), the instant of the call (at), the value
\* returned, the branch taken and whether an exception left the method.
ReadRec(S, t, r) ==
    Some([pre |-> S, at |-> t, ret |-> r.ret, path |-> r.path, raised |-> r.raised])

\* `${v}` in a template literal: the string form of v
TemplateString(v) ==
    CASE v = Undefined -> Str("undefined")
      [] v = JsNull -> Str("null")
      [] OTHER -> v

\* headers built without looking at the stored token
getHeadersNoRead(S, t) ==
    [bearer |-> Null, emits |-> FALSE, mid |-> S, tail |-> FALSE, S |-> S,
     read |-> Null]

\* getHeaders(): Authorization is `Bearer ${token.token}` when the value
\* returned by getStoredToken is truthy.  bearer: Null, or Some(the string
\* after "Bearer ").
getHeaders(S, t) ==
    LET r == getStoredToken(S, t) IN
    [bearer |-> IF Truthy(r.ret) THEN Some(TemplateString(r.ret.token)) ELSE Null,
     emits |-> r.emits, mid |-> r.mid, tail |-> r.tail, S |-> r.S,
     read |-> ReadRec(S, t, r)]

\* isAuthenticated(): !!user && !!getStoredToken()  (&& short-circuits)
isAuthenticated(S, t) ==
    IF S.user = Null
    THEN [ret |-> FALSE, emits |-> FALSE, mid |-> S, tail |-> FALSE, S |-> S,
          read |-> Null]
    ELSE LET r == getStoredToken(S, t) IN
         [ret |-> Truthy(r.ret), emits |-> r.emits, mid |-> r.mid,
          tail |-> r.tail, S |-> r.S, read |-> ReadRec(S, t, r)]

\* ------------------------------------------------------------- observables
\* An observable the service returned.  The headers are built when the method
\* is called; the observable is cold: each subscription sends a request of
\* its own, with those headers.
\*   op         the method ("of" for signOut's of(undefined))
\*   bearer     the Authorization header built by getHeaders
\*   sessionId  the id in the DELETE url (signOut), else ""
Observable(op, bearer, sessionId) ==
    [op |-> op, bearer |-> bearer, sessionId |-> sessionId]

\* of(undefined): sends nothing, emits undefined to whoever subscribes
Of == Observable("of", Null, "")

\* A request in flight: the observable subscribed and the subscriber,
\* "caller" or "restore" (the constructor's subscribe()).
Request(o, sub) ==
    [op |-> o.op, bearer |-> o.bearer, sessionId |-> o.sessionId, sub |-> sub]

\* The record of a step.
\*   kind   the step
\*   read   what its calls of getStoredToken returned and did, in order
\*          (none, one, or two at construction)
\*   ret    the value a synchronous call returned ("true", "false", "")
\*   obs    Null, or the observable (at construction: the request) created
\*   cleared  whether the step's building of headers cleared the session
\*   sub    the subscriber of the request answered, else ""
\*   resp   Null, or the HTTP response body (the error, on a failure that is
\*          rethrown) the step processed
\*   out    what the subscriber received: "" (nothing), "next", "error",
\*          "unhandled" (error with no error callback: the restore's subscribe())
\*   msg    the message of the Error delivered
\*   within for the kinds "emit" (currentUserSubject.next() was called) and
\*          "emitSession" (currentSessionSubject.next() was called): the step
\*          suspended there
\*   path   for those kinds: the branch of the read that is clearing, or ""
\*   signedOut  a signOut has completed and no signUp, signIn, getUser or
\*          updateUser has been called since
StepRecord(kind, read, ret, obs, cleared, sub, resp, out, msg) ==
    [kind |-> kind, read |-> read, ret |-> ret, obs |-> obs, cleared |-> cleared,
     sub |-> sub, resp |-> resp, out |-> out, msg |-> msg, within |-> "",
     path |-> "", signedOut |-> FALSE]

Populating == {"signUp", "signIn", "getUser", "updateUser"}

\* the record as it is logged after the current state
Stamp(rec) ==
    [rec EXCEPT !.signedOut =
        IF rec.kind \in {"signOutOk", "signOutErr", "signOutOf"} THEN TRUE
        ELSE IF rec.kind \in Populating \/ rec.within \in Populating THEN FALSE
        ELSE last.signedOut]

Step(kind, read, ret, obs, cleared, sub, resp, out, msg) ==
    Stamp(StepRecord(kind, read, ret, obs, cleared, sub, resp, out, msg))

Emit(rec) ==
    Stamp([StepRecord("emit", Null, "", Null, FALSE, rec.sub, rec.resp, "", "")
              EXCEPT !.within = rec.kind,
                     !.path = IF rec.read = <<>> THEN ""
                              ELSE rec.read[Len(rec.read)].path])

EmitSession(rec) == [Emit(rec) EXCEPT !.kind = "emitSession"]

Install(S) ==
    /\ currentUser' = S.user
    /\ currentSession' = S.session
    /\ storage' = S.storage

\* A method suspended inside the next() of a subject: what is left to do
\* when the subscribers have returned.
\*   todo  <<v>> when currentSessionSubject.next(v) is still to be called
\*   obs   Null, or the observable the method returns at its end
\*   rec   the record of the step, logged when the method ends (a call has
\*         returned, a pipe has delivered to its subscriber)
Frame(todo, obs, rec) == [todo |-> todo, obs |-> obs, rec |-> rec]

\* the observables held or about to be returned
Reserved ==
    Cardinality(held) + Cardinality({i \in 1..Len(stack) : stack[i].obs # Null})

\* A method runs as `run` says, returns obs and is recorded as rec.  When it
\* calls currentUserSubject.next() the subscribers run there: the method is
\* suspended (up to MaxDepth deep); otherwise, or with subscribers that do
\* nothing, it runs to its end.
Perform(run, obs, rec) ==
    IF run.emits /\ Len(stack) < MaxDepth
    THEN /\ Install(run.mid)
         /\ stack' = Append(stack, Frame(IF run.tail THEN <<run.S.session>> ELSE <<>>,
                                         obs, rec))
         /\ held' = held
         /\ last' = Emit(rec)
    ELSE /\ Install(run.S)
         /\ stack' = stack
         /\ held' = (IF obs = Null THEN held ELSE held \cup {obs[1]})
         /\ last' = Stamp(rec)

\* The callbacks of the subscribers of currentUser have returned: the
\* suspended method goes on to currentSessionSubject.next(null) (clearSession)
\* or currentSessionSubject.next(response.session) (signIn's map), and the
\* subscribers of currentSession run inside that call.
Resume ==
    /\ stack # <<>>
    /\ LET f == stack[Len(stack)] IN
       /\ f.todo # <<>>
       /\ currentSession' = f.todo[1]
       /\ stack' = [stack EXCEPT ![Len(stack)].todo = <<>>]
       /\ last' = EmitSession(f.rec)
    /\ UNCHANGED <<currentUser, storage, now, held, pending>>

\* The callbacks of the last next() have returned and the method ends: a call
\* returns its observable, a pipe delivers to its subscriber.
Return ==
    /\ stack # <<>>
    /\ LET f == stack[Len(stack)] IN
       /\ f.todo = <<>>
       /\ held' = (IF f.obs = Null THEN held ELSE held \cup {f.obs[1]})
       /\ last' = Stamp(f.rec)
       /\ stack' = SubSeq(stack, 1, Len(stack) - 1)
    /\ UNCHANGED <<currentUser, currentSession, storage, now, pending>>

\* ------------------------------------------------------------ construction
\* Texts another run (or anything else) may have left under the storage key.
InitialStorage ==
    {Null,
     Some(Text("", <<>>)), Some(Text("undefined", <<>>)), Some(Text("null", <<>>)),
     Some(Text("0", <<>>)), Some(Text("123", <<>>)), Some(Text("{}", <<>>))}
    \cup {Some(JSONstringify(tok)) : tok \in {k \in ReownToken : k.token = Str("t1")}}

\* restoreSession(): token = getStoredToken() at instant t; if (token)
\* getUser().subscribe(), where getUser() builds its headers with a second
\* getStoredToken, at instant t2.  No subscriber exists yet.
restoreSession(S, t, t2) ==
    LET r == getStoredToken(S, t) IN
    IF Truthy(r.ret)
    THEN LET h == getHeaders(r.S, t2) IN
         [S |-> h.S, read |-> ReadRec(S, t, r) \o h.read,
          obs |-> Some(Request(Observable("getUser", h.bearer, ""), "restore"))]
    ELSE [S |-> r.S, read |-> ReadRec(S, t, r), obs |-> Null]

\* State after the constructor has run with st0 under the storage key, the
\* clock reading t0 at its first `new Date()` and t1 afterwards.
Constructed(st0, t0, t1) ==
    LET c == restoreSession(Svc(Null, Null, st0), t0, t1) IN
    /\ currentUser = c.S.user
    /\ currentSession = c.S.session
    /\ storage = c.S.storage
    /\ now = t1
    /\ held = {}
    /\ pending = (IF c.obs = Null THEN EmptyBag ELSE SetToBag({c.obs[1]}))
    /\ stack = <<>>
    /\ last = StepRecord("construct", c.read, "", c.obs,
                          c.S # Svc(Null, Null, st0), "", Null, "", "")

Init ==
    \E st0 \in InitialStorage, t0 \in Times, t1 \in Times :
        t0 <= t1 /\ Constructed(st0, t0, t1)

\* ------------------------------------------------------------ method calls
\* Calls are made by the application, from its own code or from a callback of
\* a subscriber (while a method is suspended).
\* The part common to the methods that build a request:
\* `{ headers: this.getHeaders() }` is evaluated by the call itself, so the
\* read of the token (and its clearing) happens before anything is sent.
CallWithHeaders(op, sessionId) ==
    /\ Reserved < MaxHeld
    /\ LET h == getHeaders(Cur, now)
           o == Observable(op, h.bearer, sessionId)
       IN Perform(Run(h.emits, h.mid, h.S), Some(o),
                  StepRecord(op, h.read, "", Some(o), h.S # Cur, "", Null, "", ""))
    /\ UNCHANGED <<now, pending>>

signUp == CallWithHeaders("signUp", "")

signIn == CallWithHeaders("signIn", "")

getUser == CallWithHeaders("getUser", "")

updateUser == CallWithHeaders("updateUser", "")

requestPasswordReset == CallWithHeaders("requestPasswordReset", "")

resetPassword == CallWithHeaders("resetPassword", "")

\* the id without the guard on a missing session: `${undefined}`
SessionIdUnguarded(S) == IF S.session = Null THEN "undefined" ELSE S.session[1].id

\* session?.id, with "" for undefined
SessionId(S) == IF S.session = Null THEN "" ELSE S.session[1].id

\* signOut(): sessionId = session?.id; without one, clearSession() and
\* of(undefined); with one, the DELETE observable with headers built now.
signOutNoSession ==
    /\ SessionId(Cur) = ""
    /\ Reserved < MaxHeld
    /\ Perform(clearSession(Cur), Some(Of),
               StepRecord("signOut", Null, "", Some(Of), FALSE, "", Null, "", ""))
    /\ UNCHANGED <<now, pending>>

signOutWithSession ==
    /\ SessionId(Cur) # ""
    /\ CallWithHeaders("signOut", SessionId(Cur))

\* isAuthenticated()
IsAuthenticated ==
    LET r == isAuthenticated(Cur, now) IN
    /\ Perform(Run(r.emits, r.mid, r.S), Null,
               StepRecord("isAuthenticated", r.read, IF r.ret THEN "true" ELSE "false",
                          Null, FALSE, "", Null, "", ""))
    /\ UNCHANGED <<now, pending>>

\* A caller subscribes an observable it holds; it keeps the observable.
\* of(undefined) emits at once; an HTTP observable sends its request, up to
\* max requests in flight.
Send(max) ==
    \E o \in held :
        /\ IF o = Of
           THEN /\ pending' = pending
                /\ last' = Step("signOutOf", Null, "", Null, FALSE, "", Null, "next", "")
           ELSE /\ BagCardinality(pending) < max
                /\ pending' = pending (+) SetToBag({Request(o, "caller")})
                /\ last' = Step("subscribe", Null, "", Null, FALSE, "", Null, "", "")
        /\ UNCHANGED <<currentUser, currentSession, storage, now, held, stack>>

Subscribe == Send(MaxPending)

\* A caller lets go of an observable it holds.
Drop ==
    \E o \in held :
        /\ held' = held \ {o}
        /\ last' = Step("drop", Null, "", Null, FALSE, "", Null, "", "")
        /\ UNCHANGED <<currentUser, currentSession, storage, now, pending, stack>>

\* Time passes.
Tick ==
    /\ now < MaxTime
    /\ now' = now + 1
    /\ last' = Step("tick", Null, "", Null, FALSE, "", Null, "", "")
    /\ UNCHANGED <<currentUser, currentSession, storage, held, pending, stack>>

\* -------------------------------------------------------------- responses
\* Response bodies.  A failure carries error.message, possibly empty.
Body(user, session, token) == [user |-> user, session |-> session, token |-> token]
Messages == {"", "server message"}
Failure(message) == [message |-> message]

\* a handler that always reports its own fixed string
ErrorMessageFixed(message, fallback) == fallback

\* error.message || fallback
ErrorMessage(message, fallback) == IF message = "" THEN fallback ELSE message

\* What reaches the subscriber of request q when the pipe errors.
Errored(q) == IF q.sub = "restore" THEN "unhandled" ELSE "error"

\* an error handler copied from signOut's: it clears the session
rethrowClears(S) == Stay(Svc(Null, Null, Null))

\* catchError of the six methods that rethrow: console.error, then
\* throwError(() => new Error(...)); the service's fields are not touched.
rethrow(S) == Stay(S)

\* Request q got its response, which arrives while no method is running; the
\* pipe's operator runs as `run` says and the subscriber receives out.
Complete(q, kind, run, resp, out, msg) ==
    /\ stack = <<>>
    /\ Perform(run, Null, StepRecord(kind, Null, "", Null, FALSE, q.sub, resp, out, msg))
    /\ pending' = pending (-) SetToBag({q})
    /\ UNCHANGED now

InFlight(op) == {q \in BagToSet(pending) : q.op = op}

\* signUp map: setToken(response.token); user.next(response.user), whose
\* subscribers run before the map returns
signUpMap(S, response) ==
    Tell([setToken(S, response.token[1]) EXCEPT !.user = response.user])

signUpResponse(q, u, k) ==
    LET response == Body(Some(u), Null, Some(k)) IN
    Complete(q, "signUpOk", signUpMap(Cur, response), Some(response), "next", "")

signUpOk ==
    \E q \in InFlight("signUp"), u \in ReownUser, k \in ReownToken :
        signUpResponse(q, u, k)

signUpErr ==
    \E q \in InFlight("signUp"), m \in Messages :
        Complete(q, "signUpErr", rethrow(Cur), Some(Failure(m)), Errored(q),
                 ErrorMessage(m, "Sign up failed"))

\* signIn map: setToken; user.next(response.user), whose subscribers run
\* before the last statement; session.next(response.session), whose
\* subscribers run before the map returns
signInMap(S, response) ==
    Run(TRUE, [setToken(S, response.token[1]) EXCEPT !.user = response.user],
        [setToken(S, response.token[1]) EXCEPT !.user = response.user,
                                               !.session = response.session])

signInResponse(q, u, s, k) ==
    LET response == Body(Some(u), Some(s), Some(k)) IN
    Complete(q, "signInOk", signInMap(Cur, response), Some(response), "next", "")

signInOk ==
    \E q \in InFlight("signIn"), u \in ReownUser, s \in ReownSession, k \in ReownToken :
        signInResponse(q, u, s, k)

signInErr ==
    \E q \in InFlight("signIn"), m \in Messages :
        Complete(q, "signInErr", rethrow(Cur), Some(Failure(m)), Errored(q),
                 ErrorMessage(m, "Sign in failed"))

\* signOut tap: clearSession()
signOutTap(S) == clearSession(S)

\* signOut catchError: clearSession(); of(undefined)
signOutCatch(S) == clearSession(S)

signOutOk ==
    \E q \in InFlight("signOut") :
        Complete(q, "signOutOk", signOutTap(Cur), Null, "next", "")

signOutErr ==
    \E q \in InFlight("signOut") :
        Complete(q, "signOutErr", signOutCatch(Cur), Null, "next", "")

\* a profile response that also drops the stored token
userMapDropsToken(S, response) ==
    Tell([S EXCEPT !.user = response.user, !.storage = Null])

\* getUser / updateUser map: user.next(response.user), whose subscribers run
\* before the map returns
userMap(S, response) == Tell([S EXCEPT !.user = response.user])

getUserResponse(q, u) ==
    LET response == Body(Some(u), Null, Null) IN
    Complete(q, "getUserOk", userMap(Cur, response), Some(response), "next", "")

getUserOk == \E q \in InFlight("getUser"), u \in ReownUser : getUserResponse(q, u)

getUserErr ==
    \E q \in InFlight("getUser"), m \in Messages :
        Complete(q, "getUserErr", rethrow(Cur), Some(Failure(m)), Errored(q),
                 ErrorMessage(m, "Get user failed"))

updateUserResponse(q, u) ==
    LET response == Body(Some(u), Null, Null) IN
    Complete(q, "updateUserOk", userMap(Cur, response), Some(response), "next", "")

updateUserOk ==
    \E q \in InFlight("updateUser"), u \in ReownUser : updateUserResponse(q, u)

updateUserErr ==
    \E q \in InFlight("updateUser"), m \in Messages :
        Complete(q, "updateUserErr", rethrow(Cur), Some(Failure(m)), Errored(q),
                 ErrorMessage(m, "Update user failed"))

requestPasswordResetOk ==
    \E q \in InFlight("requestPasswordReset") :
        Complete(q, "requestPasswordResetOk", Stay(Cur), Null, "next", "")

requestPasswordResetErr ==
    \E q \in InFlight("requestPasswordReset"), m \in Messages :
        Complete(q, "requestPasswordResetErr", rethrow(Cur), Some(Failure(m)),
                 Errored(q), ErrorMessage(m, "Request password reset failed"))

resetPasswordOk ==
    \E q \in InFlight("resetPassword") :
        Complete(q, "resetPasswordOk", Stay(Cur), Null, "next", "")

resetPasswordErr ==
    \E q \in InFlight("resetPassword"), m \in Messages :
        Complete(q, "resetPasswordErr", rethrow(Cur), Some(Failure(m)), Errored(q),
                 ErrorMessage(m, "Reset password failed"))

Next ==
    \/ signUp \/ signIn \/ getUser \/ updateUser
    \/ requestPasswordReset \/ resetPassword
    \/ signOutNoSession \/ signOutWithSession
    \/ IsAuthenticated \/ Subscribe \/ Drop \/ Tick \/ Resume \/ Return
    \/ signUpOk \/ signUpErr \/ signInOk \/ signInErr
    \/ signOutOk \/ signOutErr
    \/ getUserOk \/ getUserErr \/ updateUserOk \/ updateUserErr
    \/ requestPasswordResetOk \/ requestPasswordResetErr
    \/ resetPasswordOk \/ resetPasswordErr

Spec == Init /\ [][Next]_vars

\* ------------------------------------------------ overlapping operations
\* The service with up to MaxOverlap requests in flight and a server that
\* answers each request for the account or the bearer it was sent with.
\* Accounts: user u1 owns session s1 and the tokens "t1"; u2 owns s2 and "t2".
Owner(tokenString) == IF tokenString = Str("t1") THEN "u1" ELSE "u2"

overlapSubscribe == Send(MaxOverlap)

\* the account's user and a token issued for it
consistentSignUpOk ==
    \E q \in InFlight("signUp"), u \in ReownUser, k \in ReownToken :
        /\ Owner(k.token) = u.id
        /\ signUpResponse(q, u, k)

\* the account's user, a session of that user and a token issued for it
consistentSignInOk ==
    \E q \in InFlight("signIn"), u \in ReownUser, s \in ReownSession, k \in ReownToken :
        /\ Owner(k.token) = u.id
        /\ s.userId = u.id
        /\ signInResponse(q, u, s, k)

\* the user who owns the bearer the request carried
consistentGetUserOk ==
    \E q \in InFlight("getUser"), u \in ReownUser :
        /\ q.bearer \in {Some(Str("t1")), Some(Str("t2"))}
        /\ Owner(q.bearer[1]) = u.id
        /\ getUserResponse(q, u)

consistentUpdateUserOk ==
    \E q \in InFlight("updateUser"), u \in ReownUser :
        /\ q.bearer \in {Some(Str("t1")), Some(Str("t2"))}
        /\ Owner(q.bearer[1]) = u.id
        /\ updateUserResponse(q, u)

OverlapNext ==
    \/ signUp \/ signIn \/ getUser \/ updateUser
    \/ overlapSubscribe \/ Drop \/ Tick \/ Resume \/ Return
    \/ consistentSignUpOk \/ consistentSignInOk
    \/ consistentGetUserOk \/ consistentUpdateUserOk
    \/ signUpErr \/ signInErr \/ getUserErr \/ updateUserErr

OverlapSpec == Init /\ [][OverlapNext]_vars

\* =================================================================== claims
\* Vocabulary of the properties, stated on the stored text itself.

\* st holds the serialization of a well-formed token: an object with a token
\* string and an expiresAt date.
WellFormed(st) ==
    /\ st # Null
    /\ st[1].lit = "{}"
    /\ Len(st[1].members) = 2
    /\ st[1].members[1][1] = "token"
    /\ st[1].members[1][2][1] = "str"
    /\ st[1].members[2][1] = "expiresAt"
    /\ st[1].members[2][2][1] = "date"

ExpiresAt(st) == st[1].members[2][2][2]

\* the token a well-formed text stands for
TokenObject(st) == JsValue("object", st[1].members[1][2], st[1].members[2][2])

\* st holds a text that deserializes to an object
Deserializes(st) == st # Null /\ st[1].lit = "{}"

\* st holds an object whose expiresAt is a date before t
ExpiredAt(st, t) ==
    /\ Deserializes(st)
    /\ \E i \in 1..Len(st[1].members) :
          /\ st[1].members[i][1] = "expiresAt"
          /\ st[1].members[i][2][1] = "date"
          /\ st[1].members[i][2][2] < t

\* st holds a token that deserializes and whose expiresAt is not before t
LiveAt(st, t) == Deserializes(st) /\ ~ExpiredAt(st, t)

\* st holds a text that does not deserialize to an object
Unreadable(st) == st # Null /\ st[1].lit \in {"undefined", "null"}

\* st holds an expired token or a text that does not deserialize
StaleAt(st, t) == Unreadable(st) \/ ExpiredAt(st, t)

Cleared == currentUser = Null /\ currentSession = Null /\ storage = Null

\* no method is running: the state between two steps of the application
Quiet == stack = <<>>

\* the reads of the stored token the step made
Reads == 1..Len(last.read)
DidRead == last.read # <<>>
\* the first read: the fields before it, its instant, the value it returned
ReadPre == last.read[1].pre
ReadAt == last.read[1].at
ReadRet == last.read[1].ret
\* the fields after the i-th read: those before the next one, else the
\* fields the step left
ReadPost(i) == IF i < Len(last.read) THEN last.read[i + 1].pre ELSE Cur

\* ------------------------------------------------------------------- C1
\* C1 (as claimed): in every reachable state the current user is non-null
\* only if storage holds a token that deserializes and whose expiresAt is not
\* before the current time.
C1_UserOnlyWithLiveToken == currentUser # Null => LiveAt(storage, now)

\* C1 (amended): right after a step that read the stored token, the current
\* user is non-null only if storage holds no expired token and no text that
\* fails to deserialize.
C1_NoStaleTokenAfterRead ==
    (DidRead /\ currentUser # Null) => ~StaleAt(storage, last.read[Len(last.read)].at)

\* a read found a stale token while a user was set
C1_Witness ==
    /\ DidRead
    /\ ReadPre.user # Null
    /\ StaleAt(ReadPre.storage, ReadAt)

\* ------------------------------------------------------------------- C2
SignOutCompleted == last.kind \in {"signOutOk", "signOutErr", "signOutOf"}

\* C2: when a signOut completes (of(undefined) emits after a call without
\* session, the DELETE succeeded, the DELETE failed) the current user and
\* session are null, the storage key holds nothing and isAuthenticated()
\* returns false.
C2_SignOutClears ==
    SignOutCompleted => (Cleared /\ ~isAuthenticated(Cur, now).ret)

\* ------------------------------------------------------------------- C3
SignInEffect ==
    LET r == last.resp[1] IN
    /\ r.user # Null /\ r.session # Null
    /\ currentUser = r.user
    /\ currentSession = r.session
    /\ WellFormed(storage)
    /\ TokenObject(storage) = JsValue("object", r.token[1].token, r.token[1].expiresAt)
    /\ isAuthenticated(Cur, now).ret

\* C3: right after a successful sign-in response has been processed the
\* current user and session are the response's, the stored token is the
\* response's token and isAuthenticated() returns true. Stated here for the
\* responses whose token is not expired on arrival only, the others fail
\* isAuthenticated() at once.
C3_SignInAuthenticates ==
    (last.kind = "signInOk" /\ last.resp[1].token[1].expiresAt[2] >= now)
        => SignInEffect

\* ------------------------------------------------------------------- C4
\* C4: a read of a stored token whose expiresAt is strictly before the
\* current time returns null and leaves the key absent; a read of a stored
\* well-formed token whose expiresAt is the current time or later returns
\* that token and leaves storage as it was.
C4_ReadByExpiry ==
    \A i \in Reads :
        LET r == last.read[i] IN
        WellFormed(r.pre.storage) =>
            IF ExpiresAt(r.pre.storage) < r.at
            THEN r.ret = NullValue /\ ReadPost(i).storage = Null
            ELSE r.ret = TokenObject(r.pre.storage)
                 /\ ReadPost(i).storage = r.pre.storage

\* a read met an expired token while a session was set
C4_Witness ==
    /\ DidRead
    /\ WellFormed(ReadPre.storage)
    /\ ExpiresAt(ReadPre.storage) < ReadAt
    /\ ReadPre.session # Null

\* ------------------------------------------------------------------- C5
\* C5: a read of a stored value that is no well-formed serialized token
\* returns null and raises no error.
C5_MalformedReadsNull ==
    \A i \in Reads :
        LET r == last.read[i] IN
        (r.pre.storage # Null /\ ~WellFormed(r.pre.storage)) =>
            (r.ret = NullValue /\ ~r.raised)

\* ------------------------------------------------------------------- C6
Fields == <<currentUser, currentSession, storage>>

\* the processing of a failed signUp or signIn delivers an error to the
\* caller and leaves user, session and stored token as they are
FailureDeliversError ==
    [][last'.kind \in {"signUpErr", "signInErr"} =>
          (last'.out = "error" /\ UNCHANGED Fields)]_vars

\* C6 (as claimed): when a signUp or signIn fails the caller receives an
\* error, and user, session and stored token are what they were before the
\* operation was called: neither its call nor its failure changed them.
C6_FailureChangesNothing ==
    /\ [](last.kind \in {"signUp", "signIn"} => (Cur = ReadPre /\ ~last.cleared))
    /\ FailureDeliversError

\* C6 (amended): when a signUp or signIn fails the caller receives an error
\* and the failure changes nothing; the call changes user, session and stored
\* token only when storage holds an expired token or a text that does not
\* deserialize, and then by clearing all three.
C6_FailureChangesNothingButStale ==
    /\ [](last.kind \in {"signUp", "signIn"} =>
             IF StaleAt(ReadPre.storage, ReadAt)
             THEN Cleared /\ last.cleared
             ELSE Cur = ReadPre /\ ~last.cleared)
    /\ FailureDeliversError

\* a signUp or signIn failed while a user was set
C6_Witness == last.kind \in {"signUpErr", "signInErr"} /\ currentUser # Null

\* ------------------------------------------------------------------- C7
\* C7: isAuthenticated() returns true exactly when the current user is
\* non-null and storage holds a token that deserializes and is not expired;
\* when it returns false because the value stored is no such token, user and
\* session are null and the storage key is absent afterwards.
C7_IsAuthenticatedExact ==
    last.kind = "isAuthenticated" =>
        LET pre == IF DidRead THEN ReadPre ELSE Cur
            t == IF DidRead THEN ReadAt ELSE now
        IN /\ (last.ret = "true") <=> (pre.user # Null /\ LiveAt(pre.storage, t))
           /\ (/\ last.ret = "false"
               /\ pre.user # Null
               /\ pre.storage # Null
               /\ ~LiveAt(pre.storage, t)) => Cleared

\* ------------------------------------------------------------------- C8
\* the step begins a call of signOut: the whole call when no subscriber is
\* given a turn, else its part up to currentUserSubject.next()
SignOutBegins ==
    \/ last'.kind = "signOut" /\ stack' = stack
    \/ last'.kind = "emit" /\ last'.within = "signOut"

\* the observable the call begun by the step is going to return
Returning == IF last'.kind = "emit" THEN stack'[Len(stack')].obs ELSE last'.obs

\* C8: a signOut called while the session is null creates no request, clears
\* token and state and returns of(undefined), which completes as soon as it
\* is subscribed and sends nothing; a DELETE request is sent only from an
\* observable created by a signOut called while the session was non-null,
\* and carries the id of that session.
C8_SignOutRequests ==
    [][/\ (SignOutBegins /\ currentSession = Null) =>
             /\ Returning = Some(Of)
             /\ pending' = pending
             /\ currentUser' = Null /\ storage' = Null /\ currentSession' = Null
       /\ (SignOutBegins /\ currentSession # Null) =>
             /\ Returning # Null
             /\ Returning[1].op = "signOut"
             /\ Returning[1].sessionId = currentSession[1].id
             /\ pending' = pending
       /\ (last'.kind = "signOut" /\ last'.obs = Some(Of)) => Cleared'
       /\ (last'.kind = "signOut" /\ stack' # stack) =>
             last'.obs = stack[Len(stack)].obs
       /\ last'.kind = "signOutOf" => (pending' = pending /\ last'.out = "next")
       /\ \A q \in BagToSet(pending') :
             q.op = "signOut" =>
                \/ q \in BagToSet(pending)
                \/ \E o \in held : o.op = "signOut" /\ o.sessionId = q.sessionId
       /\ \A o \in held' :
             o.op \in {"signOut", "of"} =>
                \/ o \in held
                \/ last'.kind = "signOut" /\ last'.obs = Some(o)]_vars

\* a DELETE request is in flight while the session is null
C8_Witness ==
    /\ currentSession = Null
    /\ \E q \in BagToSet(pending) : q.op = "signOut"

\* ------------------------------------------------------------------- C9
\* C9: a read that meets an expired token or a text that fails to
\* deserialize removes the storage key, sets user and session to null,
\* returns null and raises no error, in both cases alike.
C9_StaleReadClears ==
    \A i \in Reads :
        LET r == last.read[i] IN
        StaleAt(r.pre.storage, r.at) =>
            /\ ReadPost(i) = Svc(Null, Null, Null)
            /\ r.ret = NullValue
            /\ ~r.raised

\* isAuthenticated() met a stale token while a session was set
C9_Witness ==
    /\ last.kind = "isAuthenticated"
    /\ DidRead
    /\ ReadPre.session # Null
    /\ StaleAt(ReadPre.storage, ReadAt)

\* ------------------------------------------------------------------ C10
RestoreRequests ==
    {q \in BagToSet(pending) : q.op = "getUser" /\ q.sub = "restore"}

\* C10: after construction user and session are null and the restore's
\* 'get current user' request is in flight exactly when the read of the
\* persisted token yielded a valid token: storage held a well-formed token
\* that was not expired; when that request succeeds the current user is the
\* returned user; when it fails the error reaches no caller and user,
\* session and stored token are left as they were.
C10_Restore ==
    /\ last.kind = "construct" =>
          /\ currentUser = Null /\ currentSession = Null
          /\ (RestoreRequests # {}) <=>
                (WellFormed(ReadPre.storage) /\ ~ExpiredAt(ReadPre.storage, ReadAt))
    /\ [][/\ (/\ last'.kind = "emit"
              /\ last'.within = "getUserOk"
              /\ last'.sub = "restore") =>
                currentUser' = last'.resp[1].user
          /\ (last'.kind = "getUserErr" /\ last'.sub = "restore") =>
                (last'.out = "unhandled" /\ UNCHANGED Fields)]_vars

\* ------------------------------------------------------------------ C11
PasswordCalls == {"requestPasswordReset", "resetPassword"}
PasswordResponses ==
    {"requestPasswordResetOk", "requestPasswordResetErr",
     "resetPasswordOk", "resetPasswordErr"}

\* the processing of the response of a password operation changes nothing
PasswordResponseChangesNothing ==
    [][last'.kind \in PasswordResponses => UNCHANGED Fields]_vars

\* C11 (as claimed): requestPasswordReset and resetPassword never change
\* state: whatever storage holds, neither the call nor the processing of the
\* response (success or failure) changes user, session or stored token.
C11_PasswordOpsChangeNothing ==
    /\ [](last.kind \in PasswordCalls => (DidRead /\ Cur = ReadPre /\ ~last.cleared))
    /\ PasswordResponseChangesNothing

\* C11 (amended): the processing of the response changes nothing; the call
\* changes nothing unless storage holds an expired token or a text that does
\* not deserialize, and then it clears user, session and stored token.
C11_PasswordOpsChangeNothingButStale ==
    /\ [](last.kind \in PasswordCalls =>
             /\ DidRead
             /\ IF StaleAt(ReadPre.storage, ReadAt)
                THEN Cleared /\ last.cleared
                ELSE Cur = ReadPre /\ ~last.cleared)
    /\ PasswordResponseChangesNothing

\* a password operation was called with a user set and a stale token stored
C11_Witness ==
    /\ last.kind \in PasswordCalls
    /\ DidRead
    /\ ReadPre.user # Null
    /\ StaleAt(ReadPre.storage, ReadAt)

\* ------------------------------------------------------------------ C12
\* the fixed string of each operation that rethrows
Fallback ==
    [signUpErr |-> "Sign up failed", signInErr |-> "Sign in failed",
     getUserErr |-> "Get user failed", updateUserErr |-> "Update user failed",
     requestPasswordResetErr |-> "Request password reset failed",
     resetPasswordErr |-> "Reset password failed"]

ErrorOutcomes == {"error", "unhandled"}

\* C12: a failed signUp, signIn, getUser, updateUser, requestPasswordReset
\* or resetPassword ends with an error whose message is the failure's message
\* when it has one and the operation's fixed string otherwise; no step of a
\* signOut, on any response, ends with an error.
C12_ErrorOutcomes ==
    /\ last.kind \in DOMAIN Fallback =>
          /\ last.out \in ErrorOutcomes
          /\ last.msg = (IF last.resp[1].message # ""
                         THEN last.resp[1].message
                         ELSE Fallback[last.kind])
    /\ (\/ last.kind \in {"signOut", "signOutOk", "signOutErr", "signOutOf"}
        \/ last.within \in {"signOut", "signOutOk", "signOutErr"}) =>
          (last.out \notin ErrorOutcomes /\ last.msg = "")

\* an updateUser failed with a message from the server
C12_Witness ==
    /\ last.kind = "updateUserErr"
    /\ last.resp[1].message = "server message"
    /\ last.out = "error"

\* ------------------------------------------------------------------ C13
\* the step stored the token of a successful signUp or signIn response
\* (the map stores it before it calls currentUserSubject.next())
TokenWriting == last.kind = "emit" /\ last.within \in {"signUpOk", "signInOk"}

\* the step ran the first statements of a signOut's clearSession
SignOutClearing ==
    \/ last.kind = "signOut" /\ last.obs = Some(Of)
    \/ last.kind = "emit" /\ last.within \in {"signOutOk", "signOutErr"}
    \/ last.kind = "emit" /\ last.within = "signOut" /\ last.path = ""

\* the step's read of the stored token met an expired token or failed to
\* deserialize it
StaleReadClearing ==
    \/ last.kind = "emit" /\ last.path \in {"expired", "threw"}
    \/ \E i \in Reads : last.read[i].path \in {"expired", "threw"}

\* C13: the stored token is written only by the processing of a successful
\* signUp or signIn response, which stores that response's token over any
\* prior value; it is removed only by a signOut, by a read that detects
\* expiry or by a read that fails to deserialize; getUser and updateUser
\* responses and failed signUp/signIn responses leave storage as it is.
C13_TokenLifecycle ==
    [][/\ (storage' # storage /\ storage' # Null) => TokenWriting'
       /\ TokenWriting' => storage' = Some(JSONstringify(last'.resp[1].token[1]))
       /\ (storage' # storage /\ storage' = Null) =>
             (SignOutClearing' \/ StaleReadClearing')
       /\ (\/ last'.kind \in {"getUserOk", "getUserErr", "updateUserOk",
                             "updateUserErr", "signUpErr", "signInErr"}
           \/ last'.within \in {"getUserOk", "updateUserOk"}) =>
             storage' = storage]_vars

\* a successful updateUser response was processed while a token was stored
C13_Witness ==
    last.kind = "emit" /\ last.within = "updateUserOk" /\ storage # Null

\* ------------------------------------------------------------------ C14
\* C14: a request is built with an Authorization bearer header exactly when,
\* as its headers are built, storage holds a token that deserializes and is
\* not expired; the header then carries the token string of the stored
\* token; no request is built with the bearer of a token expired by then.
C14_BearerIffLiveToken ==
    (last.obs # Null /\ DidRead) =>
        LET r == last.read[Len(last.read)]
            st == r.pre.storage
            o == last.obs[1]
        IN /\ (o.bearer # Null) <=> LiveAt(st, r.at)
           /\ o.bearer # Null =>
                 /\ Deserializes(st)
                 /\ Member(st[1].members, "token")[1] = "str"
                 /\ o.bearer = Some(Member(st[1].members, "token"))
                 /\ ~ExpiredAt(st, r.at)

\* ------------------------------------------------------------------ C15
\* C15: from the completion of a signOut until the next call of signUp,
\* signIn, getUser or updateUser, user and session are null and the storage
\* key is absent: no response of a request issued earlier repopulates them.
C15_SignedOutStaysCleared == last.signedOut => Cleared

\* ------------------------------------------------------------------ C16
\* C16: with a server that answers each request for the account or bearer it
\* was sent with, whenever the current user is non-null and a token is
\* stored, the stored token is one issued for that user, in whatever order
\* the responses of overlapping operations arrive.
C16_TokenOfCurrentUser ==
    (Quiet /\ currentUser # Null /\ WellFormed(storage)) =>
        Owner(TokenObject(storage).token) = currentUser[1].id

\* ------------------------------------------------------------------ C17
\* C17: with sign-in responses that are consistent (the session returned is
\* a session of the user returned), whenever the current user and the
\* current session are both non-null the session's userId is the id of the
\* current user.
C17_SessionOfCurrentUser ==
    (Quiet /\ currentUser # Null /\ currentSession # Null) =>
        currentSession[1].userId = currentUser[1].id

\* ------------------------------------------------------------------ C18
\* C18: whenever no method of the service is running, a non-null session
\* comes with a non-null user and a value under the storage key (expired or
\* not).
C18_SessionImpliesUserAndToken ==
    (Quiet /\ currentSession # Null) => (currentUser # Null /\ storage # Null)

====
